---- MODULE Spec2Model ----
(***************************************************************************)
(* A model of docgpt's entry points (main.py) and of its dependency-       *)
(* injection wiring (src/core/containers.py).                              *)
(*                                                                         *)
(* One behaviour of the model is one invocation of one entry point:        *)
(*   fetch_documents  fetches the code and wiki documents and inserts     *)
(*                    them one by one through add_documents;               *)
(*   run_terminal     the blocking question/answer loop on stdin;          *)
(*   wire             the resolution of one Provide[...] marker against    *)
(*                    the container graph declared by Settings.            *)
(* The bodies of fetch_documents, add_documents and run_terminal are       *)
(* modelled with their collaborators supplied by the caller (the ports,    *)
(* the vector store, stdin); what the collaborators answer is drawn from   *)
(* small sets.  The variable trace logs, in program order, every call the  *)
(* program makes on a collaborator, what the collaborator answered, and    *)
(* every line the program writes.                                          *)
(*                                                                         *)
(* Text is a sequence of one-character strings, so that lower-casing and   *)
(* formatting are computed and not assumed.                                *)
(***************************************************************************)
EXTENDS Naturals, Sequences, FiniteSets

(***************************************************************************)
(* Bounds of the model.                                                    *)
(***************************************************************************)
\* the longest list of documents a fetch returns
MaxDocs == 2
\* the number of lines run_terminal may read before stdin is left alone
MaxLines == 3

(***************************************************************************)
(* Text.                                                                   *)
(***************************************************************************)
UpperCase ==
  <<"A", "B", "C", "D", "E", "F", "G", "H", "I", "J", "K", "L", "M",
    "N", "O", "P", "Q", "R", "S", "T", "U", "V", "W", "X", "Y", "Z">>
LowerCase ==
  <<"a", "b", "c", "d", "e", "f", "g", "h", "i", "j", "k", "l", "m",
    "n", "o", "p", "q", "r", "s", "t", "u", "v", "w", "x", "y", "z">>
Digits == <<"0", "1", "2", "3", "4", "5", "6", "7", "8", "9">>

\* str.lower() on one character
LowerChar(c) ==
  IF \E k \in 1..Len(UpperCase) : UpperCase[k] = c
  THEN LowerCase[CHOOSE k \in 1..Len(UpperCase) : UpperCase[k] = c]
  ELSE c

\* str.lower()
Lower(s) == [k \in 1..Len(s) |-> LowerChar(s[k])]

\* the decimal text of a natural number, as an f-string formats an int
RECURSIVE ToDigits(_)
ToDigits(n) ==
  IF n < 10 THEN <<Digits[n + 1]>>
  ELSE ToDigits(n \div 10) \o <<Digits[(n % 10) + 1]>>

\* print(s): s and the line end print appends
PrintLine(s) == s \o <<"\n">>

IsSuffix(p, s) == Len(p) <= Len(s) /\ SubSeq(s, Len(s) - Len(p) + 1, Len(s)) = p

(***************************************************************************)
(* The program's literals.                                                 *)
(***************************************************************************)
InputPrompt == <<"-", ">", " ", "*", "*", "Q", "*", "*", ":", " ">>
QuestionPrefix == <<"*", "*", "-", ">", " ", "Q", ":", " ">>
AnswerPrefix == <<"*", "*", "A", "I", "*", "*", ":", " ">>
FailPrefix ==
  <<"F", "a", "i", "l", " ", "t", "o", " ", "a", "d", "d", " ",
    "d", "o", "c", "u", "m", "e", "n", "t", ":", " ">>
SummarySuffix ==
  <<" ", "d", "o", "c", "u", "m", "e", "n", "t", "s", " ",
    "f", "a", "i", "l", "e", "d", " ", "t", "o", " ", "a", "d", "d">>
QuitKeywords == {<<"q">>, <<"q", "u", "i", "t">>, <<"e", "x", "i", "t">>}
session_id == <<"c", "l", "i">>

project == "pdf.js"
assets_path == <<"assets">>
\* Path.joinpath: one more component
JoinPath(path, name) == Append(path, name)
code_url == <<"ssh://git@github.com/mozilla/", project, ".git">>
code_path == JoinPath(assets_path, project)
wiki_url == <<"ssh://git@github.com/mozilla/", project, ".wiki.git">>
wiki_path == JoinPath(assets_path, project \o ".wiki")
branch == <<"master">>

(***************************************************************************)
(* What the collaborators may answer.                                      *)
(***************************************************************************)
Docs == {"d1", "d2"}
RECURSIVE SeqsUpTo(_, _)
SeqsUpTo(S, n) ==
  IF n = 0 THEN {<<>>}
  ELSE LET shorter == SeqsUpTo(S, n - 1)
       IN  shorter \cup {Append(s, x) : s \in shorter, x \in S}
DocLists == SeqsUpTo(Docs, MaxDocs)

\* Python's hierarchy: KeyboardInterrupt derives from BaseException only
ExceptionClasses == {"Exception", "EOFError"}
Exceptions ==
  { [kind |-> "Exception", msg |-> <<"b", "o", "o", "m">>],
    [kind |-> "KeyboardInterrupt", msg |-> <<>>] }
EOFError == [kind |-> "EOFError", msg |-> <<>>]
\* a clause that catches one class only: "except (ValueError,)"
IsException_ValueErrorOnly(e) == e.kind = "ValueError"

\* isinstance(e, Exception), the test of "except (Exception,)"
IsException(e) == e.kind \in ExceptionClasses

Lines ==
  { <<"q">>, <<"Q">>, <<"q", "u", "i", "t">>, <<"Q", "u", "I", "T">>,
    <<"e", "x", "i", "t">>, <<"E", "X", "I", "T">>,
    <<>>, <<" ", "q">>, <<"q", "u", "i", "t", "s">>, <<"h", "i">> }
Answers == { <<>>, <<"O", "k", "\n", "Q">> }

VARIABLES
  entry,        \* the entry point this behaviour runs
  pc,           \* the position of the program
  fs,           \* the paths that exist on the local file system
  store,        \* the vector store: how many copies of each document it holds
  store0,       \* the vector store as it was when the entry point was called
  code_docs,    \* fetch_documents' local
  wiki_docs,    \* fetch_documents' local
  documents,    \* add_documents' argument
  i,            \* add_documents: the position of "for doc in documents"
  fails_count,  \* add_documents' local
  ret,          \* where add_documents returns to
  question,     \* run_terminal's local
  answer,       \* run_terminal's local
  marker,       \* wire: the provider asked for
  stack,        \* wire: the providers being resolved, innermost last
  built,        \* wire: the singletons constructed so far
  trace         \* the calls made, their outcomes and the lines written

vars ==
  <<entry, pc, fs, store, store0, code_docs, wiki_docs, documents, i,
    fails_count, ret, question, answer, marker, stack, built, trace>>

fetch_vars == <<code_docs, wiki_docs>>
add_vars == <<documents, i, fails_count, ret>>
terminal_vars == <<question, answer>>
wire_vars == <<marker, stack, built>>

Ev(e, a, o) == [ev |-> e, arg |-> a, opt |-> o]
Return(v) == Ev("return", v, <<>>)
Raise(e) == Ev("raise", e.msg, <<e.kind>>)
Stdout(s) == Ev("stdout", s, <<>>)

\* the vector store may hold documents before the program runs
EmptyStore == [d \in Docs |-> 0]
Stores == {EmptyStore, [EmptyStore EXCEPT !["d1"] = 1]}

\* no provider asked for yet
NoProvider == <<"", "">>

\* the locals before the entry point has assigned them
Locals ==
  /\ code_docs = <<>>
  /\ wiki_docs = <<>>
  /\ documents = <<>>
  /\ i = 1
  /\ fails_count = 0
  /\ ret = "done"
  /\ question = <<>>
  /\ answer = <<>>
  /\ marker = NoProvider
  /\ stack = <<>>
  /\ built = {}
  /\ trace = <<>>

\* fetch_documents is called
InitIngest ==
  /\ entry = "fetch_documents"
  /\ pc = "code_fetch"
  /\ fs \in SUBSET {code_path, wiki_path}
  /\ store \in Stores
  /\ store0 = store
  /\ Locals

\* run_terminal is called, or a provider is asked of the containers
InitApp ==
  /\ entry \in {"run_terminal", "wire"}
  /\ pc = IF entry = "run_terminal" THEN "input" ELSE "provide"
  /\ fs = {}
  /\ store = EmptyStore
  /\ store0 = store
  /\ Locals

Init == InitIngest \/ InitApp

(***************************************************************************)
(* fetch_documents                                                         *)
(***************************************************************************)
\* Path.exists()
Exists(path) == path \in fs

\* main.py lines 70-73: the call that fetches the code documents
CodeFetchCall ==
  IF Exists(code_path)
  THEN Ev("code.get_by_path", <<project, code_path>>, branch)
  ELSE Ev("code.get_by_url", <<project, code_url>>, branch)

\* the wiki fetch chosen by the presence of the code repository
WikiFetchCall_ChecksCodePath ==
  IF Exists(code_path)
  THEN Ev("wiki.get_by_path", <<project, wiki_path>>, <<>>)
  ELSE Ev("wiki.get_by_url", <<project, wiki_url>>, <<>>)

\* main.py lines 75-78: the call that fetches the wiki documents
WikiFetchCall ==
  IF Exists(wiki_path)
  THEN Ev("wiki.get_by_path", <<project, wiki_path>>, <<>>)
  ELSE Ev("wiki.get_by_url", <<project, wiki_url>>, <<>>)

FetchCode ==
  /\ pc = "code_fetch"
  /\ \/ \E docs \in DocLists :
          /\ code_docs' = docs
          /\ trace' = trace \o <<CodeFetchCall, Return(docs)>>
          /\ pc' = "wiki_fetch"
     \/ \E e \in Exceptions :
          /\ code_docs' = code_docs
          /\ trace' = trace \o <<CodeFetchCall, Raise(e)>>
          /\ pc' = "raised"
  /\ UNCHANGED <<entry, fs, store, store0, wiki_docs, add_vars, terminal_vars, wire_vars>>

FetchWiki ==
  /\ pc = "wiki_fetch"
  /\ \/ \E docs \in DocLists :
          /\ wiki_docs' = docs
          /\ trace' = trace \o <<WikiFetchCall, Return(docs)>>
          /\ pc' = "add_wiki"
     \/ \E e \in Exceptions :
          /\ wiki_docs' = wiki_docs
          /\ trace' = trace \o <<WikiFetchCall, Raise(e)>>
          /\ pc' = "raised"
  /\ UNCHANGED <<entry, fs, store, store0, code_docs, add_vars, terminal_vars, wire_vars>>

\* the call add_documents(docs) and lines 43-45: the locals as the loop starts
CallAddDocuments(docs, back) ==
  /\ documents' = docs
  /\ fails_count' = 0
  /\ i' = 1
  /\ ret' = back
  /\ trace' = Append(trace, Ev("add_documents", docs, <<>>))
  /\ pc' = "for"

\* the code documents passed first
FirstAddArgument_Code == code_docs

\* main.py line 80
FirstAddArgument == wiki_docs
\* the wiki documents passed twice
SecondAddArgument_Wiki == wiki_docs

\* main.py line 81
SecondAddArgument == code_docs

AddWiki ==
  /\ pc = "add_wiki"
  /\ CallAddDocuments(FirstAddArgument, "add_code")
  /\ UNCHANGED <<entry, fs, store, store0, fetch_vars, terminal_vars, wire_vars>>

AddCode ==
  /\ pc = "add_code"
  /\ CallAddDocuments(SecondAddArgument, "done")
  /\ UNCHANGED <<entry, fs, store, store0, fetch_vars, terminal_vars, wire_vars>>

(***************************************************************************)
(* add_documents                                                           *)
(***************************************************************************)
\* the vector store after it has accepted [doc]
Stored(doc) == [store EXCEPT ![doc] = @ + 1]

\* main.py line 47, the insertion succeeds
InsertOk ==
  /\ pc = "for"
  /\ i <= Len(documents)
  /\ store' = Stored(documents[i])
  /\ trace' = trace \o <<Ev("storage.add_documents", <<documents[i]>>, <<>>),
                         Return(<<>>)>>
  /\ i' = i + 1
  /\ UNCHANGED <<entry, pc, fs, store0, fetch_vars, documents, fails_count,
                 ret, terminal_vars, wire_vars>>

\* a handler that sets the count where it should add to it
Handle_SetsCount(e) ==
  /\ fails_count' = 1
  /\ trace' = trace \o <<Ev("storage.add_documents", <<documents[i]>>, <<>>),
                         Raise(e),
                         Stdout(PrintLine(FailPrefix \o e.msg))>>
  /\ i' = i + 1
  /\ pc' = pc

\* main.py lines 48-50: the handler of an exception the clause catches
Handle(e) ==
  /\ fails_count' = fails_count + 1
  /\ trace' = trace \o <<Ev("storage.add_documents", <<documents[i]>>, <<>>),
                         Raise(e),
                         Stdout(PrintLine(FailPrefix \o e.msg))>>
  /\ i' = i + 1
  /\ pc' = pc

\* an exception the clause does not catch leaves add_documents and its caller
Propagate(e) ==
  /\ fails_count' = fails_count
  /\ trace' = trace \o <<Ev("storage.add_documents", <<documents[i]>>, <<>>),
                         Raise(e)>>
  /\ i' = i
  /\ pc' = "raised"

\* main.py lines 46-50, the insertion raises
InsertRaises ==
  /\ pc = "for"
  /\ i <= Len(documents)
  /\ \E e \in Exceptions :
       IF IsException(e) THEN Handle(e) ELSE Propagate(e)
  /\ UNCHANGED <<entry, fs, store, store0, fetch_vars, documents, ret,
                 terminal_vars, wire_vars>>

\* main.py lines 52-53
Summary ==
  IF fails_count # 0
  THEN <<Stdout(PrintLine(ToDigits(fails_count) \o SummarySuffix))>>
  ELSE <<>>

\* the loop is exhausted: lines 52-53 and the return to the caller
AddDocumentsReturn ==
  /\ pc = "for"
  /\ i > Len(documents)
  /\ trace' = trace \o Summary \o <<Ev("add_documents.return", <<>>, <<>>)>>
  /\ pc' = ret
  /\ UNCHANGED <<entry, fs, store, store0, fetch_vars, add_vars, terminal_vars, wire_vars>>

(***************************************************************************)
(* run_terminal                                                            *)
(***************************************************************************)
\* the lines input() has returned so far
LinesRead ==
  Cardinality({k \in 1..Len(trace) : trace[k].ev = "input"
                 /\ k < Len(trace) /\ trace[k + 1].ev = "return"})

\* the test without lower()
IsQuit_CaseSensitive(q) == q \in QuitKeywords

\* main.py line 21: question.lower() in ["q", "quit", "exit"]
IsQuit(q) == Lower(q) \in QuitKeywords

\* main.py line 20, input() returns a line
ReadLine ==
  /\ pc = "input"
  /\ LinesRead < MaxLines
  /\ \E line \in Lines :
       /\ question' = line
       /\ trace' = trace \o <<Ev("input", InputPrompt, <<>>), Return(line)>>
  /\ pc' = "check"
  /\ UNCHANGED <<entry, fs, store, store0, fetch_vars, add_vars, answer,
                 wire_vars>>

\* main.py line 20, stdin is at its end: input() raises EOFError
ReadEOF ==
  /\ pc = "input"
  /\ trace' = trace \o <<Ev("input", InputPrompt, <<>>), Raise(EOFError)>>
  /\ pc' = "raised"
  /\ UNCHANGED <<entry, fs, store, store0, fetch_vars, add_vars,
                 terminal_vars, wire_vars>>

\* main.py lines 21-22: break
Quit ==
  /\ pc = "check"
  /\ IsQuit(question)
  /\ pc' = "done"
  /\ UNCHANGED <<entry, fs, store, store0, fetch_vars, add_vars,
                 terminal_vars, wire_vars, trace>>

\* main.py line 24, the call
AskChat ==
  /\ pc = "check"
  /\ ~IsQuit(question)
  /\ trace' = Append(trace, Ev("chat.prompt", question, session_id))
  /\ pc' = "awaiting"
  /\ UNCHANGED <<entry, fs, store, store0, fetch_vars, add_vars,
                 terminal_vars, wire_vars>>

\* main.py line 24, chat.prompt returns
PromptReturns ==
  /\ pc = "awaiting"
  /\ \E a \in Answers :
       /\ answer' = a
       /\ trace' = Append(trace, Return(a))
  /\ pc' = "print"
  /\ UNCHANGED <<entry, fs, store, store0, fetch_vars, add_vars, question,
                 wire_vars>>

\* the exception caught and the loop resumed
PromptRaises_Swallowed ==
  /\ pc = "awaiting"
  /\ \E e \in Exceptions : trace' = Append(trace, Raise(e))
  /\ pc' = "input"
  /\ UNCHANGED <<entry, fs, store, store0, fetch_vars, add_vars,
                 terminal_vars, wire_vars>>

\* main.py line 24, chat.prompt raises: nothing in run_terminal catches it
PromptRaises ==
  /\ pc = "awaiting"
  /\ \E e \in Exceptions : trace' = Append(trace, Raise(e))
  /\ pc' = "raised"
  /\ UNCHANGED <<entry, fs, store, store0, fetch_vars, add_vars,
                 terminal_vars, wire_vars>>

\* main.py line 25
QuestionLine == PrintLine(QuestionPrefix \o question \o <<"\n">>)
\* the question written where the answer belongs
AnswerLine_EchoesQuestion == PrintLine(AnswerPrefix \o question \o <<"\n">>)

\* main.py line 26
AnswerLine == PrintLine(AnswerPrefix \o answer \o <<"\n">>)

\* main.py lines 25-26 and back to the head of the loop
PrintAnswer ==
  /\ pc = "print"
  /\ trace' = trace \o <<Stdout(QuestionLine), Stdout(AnswerLine)>>
  /\ pc' = "input"
  /\ UNCHANGED <<entry, fs, store, store0, fetch_vars, add_vars,
                 terminal_vars, wire_vars>>

(***************************************************************************)
(* The containers (src/core/containers.py).  A provider is named by the    *)
(* attribute of Settings that holds its container and by its own name.     *)
(***************************************************************************)
\* Settings' containers, in the order the class body declares them
SettingsOrder == <<"core", "ai", "storage", "content", "assistant", "app">>
SettingsAttrs == {SettingsOrder[k] : k \in 1..Len(SettingsOrder)}

\* the class each attribute of Settings instantiates
ContainerClass(attr) ==
  CASE attr = "core" -> "Core"
    [] attr = "ai" -> "AI"
    [] attr = "storage" -> "StorageAdapters"
    [] attr = "content" -> "ContentAdapters"
    [] attr = "assistant" -> "AssistantAdapters"
    [] attr = "app" -> "Apps"

\* storage given the assistant container as its ai
Kwargs_StorageGivenAssistant(attr) ==
  CASE attr = "storage" -> {<<"ai", "assistant">>}
    [] attr = "assistant" -> {<<"ai", "ai">>, <<"storage", "storage">>}
    [] attr = "app" -> {<<"assistent", "assistant">>}
    [] OTHER -> {}

\* the containers Settings passes to each container, besides config:
\* <<keyword, attribute of Settings>>
Kwargs(attr) ==
  CASE attr = "storage" -> {<<"ai", "ai">>}
    [] attr = "assistant" -> {<<"ai", "ai">>, <<"storage", "storage">>}
    [] attr = "app" -> {<<"assistent", "assistant">>}
    [] OTHER -> {}

\* the DependenciesContainer attributes each class declares
DependenciesContainers(cls) ==
  CASE cls = "StorageAdapters" -> {"ai"}
    [] cls = "AssistantAdapters" -> {"ai", "storage"}
    [] cls = "Apps" -> {"assistent"}
    [] OTHER -> {}

\* the providers each class declares, config and dependencies aside
Providers(cls) ==
  CASE cls = "Core" -> {"logging"}
    [] cls = "AI" -> {"llm", "embeddings"}
    [] cls = "StorageAdapters" -> {"vector_storage", "memory_factory"}
    [] cls = "ContentAdapters" ->
         {"converter", "splitter_factory", "git_splitter", "git", "web"}
    [] cls = "AssistantAdapters" -> {"memory", "chat"}
    [] cls = "Apps" -> {"discord_token"}

\* every attribute of a container instance
Declares(cls) == {"config"} \cup DependenciesContainers(cls) \cup Providers(cls)

\* the providers a provider is given as arguments and calls when it is
\* called: <<"self" or a DependenciesContainer, name>>, in argument order
Injected(cls, name) ==
  CASE cls = "StorageAdapters" /\ name = "vector_storage" ->
         << <<"ai", "embeddings">> >>
    [] cls = "ContentAdapters" /\ name = "git_splitter" ->
         << <<"self", "splitter_factory">> >>
    [] cls = "ContentAdapters" /\ name = "git" ->
         << <<"self", "git_splitter">> >>
    [] cls = "ContentAdapters" /\ name = "web" ->
         << <<"self", "converter">> >>
    [] cls = "AssistantAdapters" /\ name = "memory" ->
         << <<"storage", "memory_factory">> >>
    [] cls = "AssistantAdapters" /\ name = "chat" ->
         << <<"ai", "llm">>, <<"storage", "vector_storage">> >>
    [] OTHER -> <<>>

\* the providers a provider is handed uncalled (memory.provider)
Delegated(cls, name) ==
  IF cls = "AssistantAdapters" /\ name = "chat"
  THEN {<<"self", "memory">>} ELSE {}

\* Singleton and Resource providers keep the object they made
Cached(cls, name) ==
  name \in {"logging", "llm", "embeddings", "vector_storage", "converter",
            "git_splitter", "git", "web", "chat"}

AllProviders ==
  {<<a, n>> : a \in SettingsAttrs,
              n \in UNION {Providers(ContainerClass(b)) : b \in SettingsAttrs}}

IsDeclared(p) ==
  /\ p[1] \in SettingsAttrs
  /\ p[2] \in Declares(ContainerClass(p[1]))

DeclaredProviders ==
  {p \in AllProviders : p[2] \in Providers(ContainerClass(p[1]))}

\* the attribute of Settings a container's keyword is bound to
Bound(attr, local) ==
  IF \E kw \in Kwargs(attr) : kw[1] = local
  THEN (CHOOSE kw \in Kwargs(attr) : kw[1] = local)[2]
  ELSE "unbound"

\* a reference made inside container attr, as a provider of Settings
Target(attr, ref) ==
  IF ref[1] = "self" THEN <<attr, ref[2]>> ELSE <<Bound(attr, ref[1]), ref[2]>>

\* the providers provider p calls before it constructs its object
Dependencies(p) ==
  LET refs == Injected(ContainerClass(p[1]), p[2])
  IN  [k \in 1..Len(refs) |-> Target(p[1], refs[k])]

(***************************************************************************)
(* The Provide[...] markers of main.py.                                    *)
(***************************************************************************)
\* main.py lines 17, 32, 41, 58, 59, 60
Markers ==
  { <<"assistant", "chat">>, <<"app", "discord_token">>,
    <<"storage", "vector_storage">>, <<"content", "git_code">>,
    <<"content", "git_wiki">>, <<"core", "assets_path">> }

AttributeError == [kind |-> "AttributeError", msg |-> <<>>]
RecursionError == [kind |-> "RecursionError", msg |-> <<>>]

Frame(p) == [p |-> p, k |-> 1]
OnStack(p) == \E k \in 1..Len(stack) : stack[k].p = p

\* a marker of main.py, or any provider of the containers, is asked for:
\* an attribute the container does not have raises AttributeError
Provide ==
  /\ pc = "provide"
  /\ \E m \in Markers \cup DeclaredProviders :
       /\ marker' = m
       /\ IF IsDeclared(m)
          THEN /\ stack' = <<Frame(m)>>
               /\ trace' = trace
               /\ pc' = "resolve"
          ELSE /\ stack' = stack
               /\ trace' = Append(trace, Raise(AttributeError))
               /\ pc' = "raised"
  /\ UNCHANGED <<entry, fs, store, store0, fetch_vars, add_vars,
                 terminal_vars, built>>

\* the innermost provider turns to its next argument
Descend ==
  /\ pc = "resolve"
  /\ LET top == stack[Len(stack)]
         deps == Dependencies(top.p)
         rest == [stack EXCEPT ![Len(stack)].k = @ + 1]
     IN  /\ top.k <= Len(deps)
         /\ LET d == deps[top.k]
            IN  IF ~IsDeclared(d)
                THEN /\ stack' = stack
                     /\ trace' = Append(trace, Raise(AttributeError))
                     /\ pc' = "raised"
                ELSE IF OnStack(d)
                THEN /\ stack' = stack
                     /\ trace' = Append(trace, Raise(RecursionError))
                     /\ pc' = "raised"
                ELSE /\ stack' = IF d \in built THEN rest
                                 ELSE Append(rest, Frame(d))
                     /\ trace' = trace
                     /\ pc' = pc
  /\ UNCHANGED <<entry, fs, store, store0, fetch_vars, add_vars,
                 terminal_vars, marker, built>>

\* the innermost provider has its arguments: it makes its object
Construct ==
  /\ pc = "resolve"
  /\ LET top == stack[Len(stack)]
     IN  /\ top.k > Len(Dependencies(top.p))
         /\ trace' = Append(trace, Ev("provide", top.p, <<>>))
         /\ built' = IF Cached(ContainerClass(top.p[1]), top.p[2])
                     THEN built \cup {top.p} ELSE built
         /\ stack' = SubSeq(stack, 1, Len(stack) - 1)
         /\ pc' = IF Len(stack) = 1 THEN "done" ELSE "resolve"
  /\ UNCHANGED <<entry, fs, store, store0, fetch_vars, add_vars,
                 terminal_vars, marker>>

\* the steps of fetch_documents and add_documents
NextIngest ==
  \/ FetchCode
  \/ FetchWiki
  \/ AddWiki
  \/ AddCode
  \/ InsertOk
  \/ InsertRaises
  \/ AddDocumentsReturn

\* run_terminal's own steps and the containers' steps
ProgramStep ==
  \/ Quit
  \/ AskChat
  \/ PrintAnswer
  \/ Descend
  \/ Construct

\* what run_terminal's collaborators and the caller of a provider do
CollaboratorStep ==
  \/ ReadLine
  \/ ReadEOF
  \/ PromptReturns
  \/ PromptRaises
  \/ Provide

NextApp == ProgramStep \/ CollaboratorStep

Next == NextIngest \/ NextApp

Spec == Init /\ [][Next]_vars

\* the ingestion alone
Ingest == InitIngest /\ [][NextIngest]_vars

\* the terminal loop and the wiring alone
App == InitApp /\ [][NextApp]_vars

\* The program is one thread and runs its next statement; a call of
\* chat.prompt is taken to answer, by returning or by raising.  Nothing makes
\* a user type a line.
FairApp ==
  /\ App
  /\ WF_vars(ProgramStep)
  /\ WF_vars(PromptReturns \/ PromptRaises)

(***************************************************************************)
(* Reading the trace.                                                      *)
(***************************************************************************)
Idx == 1..Len(trace)
At(e) == {m \in Idx : trace[m].ev = e}
\* the calls whose callee returned, and those whose callee raised
Returned(e) == {m \in At(e) : m < Len(trace) /\ trace[m + 1].ev = "return"}
Raised(e) == {m \in At(e) : m < Len(trace) /\ trace[m + 1].ev = "raise"}
Count(seq, x) == Cardinality({n \in DOMAIN seq : seq[n] = x})

CodeFetches == At("code.get_by_path") \cup At("code.get_by_url")
WikiFetches == At("wiki.get_by_path") \cup At("wiki.get_by_url")
FetchesReturned ==
  Returned("code.get_by_path") \cup Returned("code.get_by_url")
    \cup Returned("wiki.get_by_path") \cup Returned("wiki.get_by_url")
FetchesRaised ==
  Raised("code.get_by_path") \cup Raised("code.get_by_url")
    \cup Raised("wiki.get_by_path") \cup Raised("wiki.get_by_url")
\* what the fetch of a source returned
Fetched(calls) ==
  IF \E m \in calls : m \in FetchesReturned
  THEN trace[(CHOOSE m \in calls : m \in FetchesReturned) + 1].arg
  ELSE <<>>

\* one call of add_documents: from its entry k to its return, or to the end
\* of the trace while it runs
HasReturned(k) == \E j \in At("add_documents.return") : j > k
ReturnAt(k) ==
  CHOOSE j \in At("add_documents.return") :
    j > k /\ \A j2 \in At("add_documents.return") : j2 > k => j <= j2
EndOf(k) == IF HasReturned(k) THEN ReturnAt(k) ELSE Len(trace)
InsertionsOf(k) == {m \in At("storage.add_documents") : k < m /\ m < EndOf(k)}
FailuresOf(k) == InsertionsOf(k) \cap Raised("storage.add_documents")
\* the lines written in a call that do not report one failed insertion
SummariesOf(k) ==
  {m \in At("stdout") : k < m /\ m < EndOf(k) /\ trace[m - 1].ev # "raise"}

\* the number a text of decimal digits denotes
DigitValue(c) == (CHOOSE n \in 1..10 : Digits[n] = c) - 1
RECURSIVE ParseNat(_)
ParseNat(s) ==
  IF Len(s) = 0 THEN 0
  ELSE 10 * ParseNat(SubSeq(s, 1, Len(s) - 1)) + DigitValue(s[Len(s)])
IsNumeral(s) ==
  Len(s) > 0 /\ \A n \in 1..Len(s) : \E v \in 1..10 : Digits[v] = s[n]

\* "<count> documents failed to add" and the line end
IsSummaryOf(line, n) ==
  LET tail == SummarySuffix \o <<"\n">>
      head == SubSeq(line, 1, Len(line) - Len(tail))
  IN  IsSuffix(tail, line) /\ IsNumeral(head) /\ ParseNat(head) = n

(***************************************************************************)
(* C1: when a call of add_documents has returned and N of its insertions   *)
(* raised an Exception, the call wrote exactly one summary line, as its    *)
(* last line, and the line reports N; when N = 0 it wrote no summary line. *)
(***************************************************************************)
C1_SummaryReportsFailures ==
  \A k \in At("add_documents") :
    HasReturned(k) =>
      LET n == Cardinality(FailuresOf(k))
      IN  IF n = 0 THEN SummariesOf(k) = {}
          ELSE /\ SummariesOf(k) = {ReturnAt(k) - 1}
               /\ IsSummaryOf(trace[ReturnAt(k) - 1].arg, n)

\* one call has returned after two failures, another after none
C1_Witness ==
  /\ \E k \in At("add_documents") :
       HasReturned(k) /\ Cardinality(FailuresOf(k)) = 2
  /\ \E k \in At("add_documents") :
       /\ HasReturned(k) /\ FailuresOf(k) = {}
       /\ Cardinality(InsertionsOf(k)) = 2

(***************************************************************************)
(* C2: in every call add_documents(documents) the insertions attempted so  *)
(* far are documents[1], documents[2], ... in order, each as a list of one *)
(* document; while the call runs, the next document to attempt is the one  *)
(* after the last attempted, whether that attempt failed or not; when the  *)
(* call has returned every document was attempted exactly once; and an     *)
(* exception that left add_documents is not an Exception.                  *)
(***************************************************************************)
C2_FailuresIsolated ==
  /\ \A k \in At("add_documents") :
       LET docs == trace[k].arg
           ins == InsertionsOf(k)
           ordinal(m) == Cardinality({m2 \in ins : m2 <= m})
       IN  /\ \A m \in ins :
                /\ ordinal(m) <= Len(docs)
                /\ trace[m].arg = <<docs[ordinal(m)]>>
           /\ HasReturned(k) => Cardinality(ins) = Len(docs)
           /\ (~HasReturned(k) /\ pc = "for") => i = Cardinality(ins) + 1
  /\ pc = "raised" =>
       \A m \in Raised("storage.add_documents") :
         m + 1 = Len(trace) => trace[m + 1].opt[1] \notin ExceptionClasses

\* a call has returned whose first insertion raised an Exception and whose
\* second insertion was attempted all the same
C2_Witness ==
  \E k \in At("add_documents") :
    /\ HasReturned(k)
    /\ Len(trace[k].arg) = 2
    /\ \E m \in FailuresOf(k) :
         /\ trace[m + 1].opt[1] = "Exception"
         /\ \E m2 \in InsertionsOf(k) : m2 > m

\* the insertions of document d that returned, and those that raised
OkAdds(d) ==
  Cardinality({m \in Returned("storage.add_documents") : trace[m].arg = <<d>>})
FailedAdds(d) ==
  Cardinality({m \in Raised("storage.add_documents") : trace[m].arg = <<d>>})

(***************************************************************************)
(* C3: the vector store holds what it held when fetch_documents was called *)
(* plus one copy of a document per insertion that did not raise, at every  *)
(* moment (nothing stored is taken back); and once fetch_documents has     *)
(* returned, the insertions that did not raise are the documents the two   *)
(* fetches returned less the insertions that raised.                       *)
(***************************************************************************)
C3_StoredAreFetchedLessFailed ==
  entry = "fetch_documents" =>
    /\ \A d \in Docs : store[d] = store0[d] + OkAdds(d)
    /\ pc = "done" =>
         \A d \in Docs :
           OkAdds(d) + FailedAdds(d) =
             Count(Fetched(WikiFetches), d) + Count(Fetched(CodeFetches), d)

\* fetch_documents has returned; a wiki document is stored although a later
\* code document failed
C3_Witness ==
  /\ entry = "fetch_documents"
  /\ pc = "done"
  /\ Len(Fetched(WikiFetches)) > 0
  /\ Len(Fetched(CodeFetches)) > 0
  /\ \E m \in Returned("storage.add_documents") :
       \E m2 \in Raised("storage.add_documents") : m < m2

(***************************************************************************)
(* C9: each source is fetched at most once, and exactly once when both     *)
(* fetches are over; the code fetch is get_by_path exactly if              *)
(* assets_path/pdf.js exists and the wiki fetch is get_by_path exactly if  *)
(* assets_path/pdf.js.wiki exists, each on its own; the code fetch names   *)
(* branch master.                                                          *)
(***************************************************************************)
C9_OneFetchPerSourceByPresence ==
  entry = "fetch_documents" =>
    /\ Cardinality(CodeFetches) <= 1
    /\ Cardinality(WikiFetches) <= 1
    /\ pc \in {"add_wiki", "add_code", "for", "done"} =>
         Cardinality(CodeFetches) = 1 /\ Cardinality(WikiFetches) = 1
    /\ \A m \in CodeFetches :
         /\ trace[m].ev = "code.get_by_path" <=>
              <<"assets", "pdf.js">> \in fs
         /\ trace[m].opt = <<"master">>
         /\ trace[m].arg[1] = "pdf.js"
    /\ \A m \in WikiFetches :
         /\ trace[m].ev = "wiki.get_by_path" <=>
              <<"assets", "pdf.js.wiki">> \in fs
         /\ trace[m].arg[1] = "pdf.js"

\* only the code repository is present: the code came by path, the wiki by url
C9_Witness ==
  /\ fs = {<<"assets", "pdf.js">>}
  /\ At("code.get_by_path") # {}
  /\ At("wiki.get_by_url") # {}

(***************************************************************************)
(* C10: the code fetch comes before the wiki fetch; add_documents is       *)
(* called, and a document inserted, only after both fetches have returned; *)
(* the first call of add_documents is given the wiki documents, the second *)
(* the code documents, and the second starts only when the first has       *)
(* returned, every wiki document having been attempted.                    *)
(***************************************************************************)
C10_FetchesThenWikiThenCode ==
  entry = "fetch_documents" =>
    LET codes == CodeFetches
        wikis == WikiFetches
        done == FetchesReturned
        calls == At("add_documents")
        inserts == At("storage.add_documents")
        returns == At("add_documents.return")
        wiki_fetched == Fetched(wikis)
    IN  /\ \A a \in codes : \A b \in wikis : a < b
        /\ \A m \in calls \cup inserts :
             /\ \E a \in codes : a \in done /\ a < m
             /\ \E b \in wikis : b \in done /\ b < m
        /\ Cardinality(calls) <= 2
        /\ \A k \in calls :
             IF \A k2 \in calls : k <= k2
             THEN trace[k].arg = wiki_fetched
             ELSE /\ trace[k].arg = Fetched(codes)
                  /\ \E j \in returns : j < k
                  /\ Cardinality({m \in inserts : m < k}) = Len(wiki_fetched)

\* the code documents are being inserted, after a wiki insertion that failed
C10_Witness ==
  /\ Cardinality(At("add_documents")) = 2
  /\ Fetched(WikiFetches) # Fetched(CodeFetches)
  /\ \E k \in At("add_documents") :
       /\ HasReturned(k) /\ FailuresOf(k) # {}
       /\ \E m \in At("storage.add_documents") : m > ReturnAt(k)

(***************************************************************************)
(* The lines of Lines that are a quit keyword in some letter case, and     *)
(* those that are not, written out.                                        *)
(***************************************************************************)
QuitLines ==
  { <<"q">>, <<"Q">>, <<"q", "u", "i", "t">>, <<"Q", "u", "I", "T">>,
    <<"e", "x", "i", "t">>, <<"E", "X", "I", "T">> }
OtherLines ==
  { <<>>, <<" ", "q">>, <<"q", "u", "i", "t", "s">>, <<"h", "i">> }

\* what has followed each line read so far
C4_AtQuitOnly ==
  entry = "run_terminal" =>
    /\ \A m \in Returned("input") :
         LET line == trace[m + 1].arg
         IN  IF line \in QuitLines
             THEN m + 1 = Len(trace) /\ pc \in {"check", "done"}
             ELSE /\ line \in OtherLines
                  /\ \/ m + 1 = Len(trace) /\ pc = "check"
                     \/ m + 1 < Len(trace) /\ trace[m + 2].ev = "chat.prompt"
    /\ pc = "done" =>
         /\ Len(trace) >= 2
         /\ trace[Len(trace) - 1].ev = "input"
         /\ trace[Len(trace)].ev = "return"
         /\ trace[Len(trace)].arg \in QuitLines

(***************************************************************************)
(* C4: a line that is a quit keyword in some letter case is the last thing *)
(* run_terminal reads: chat.prompt is not called for it, nothing follows   *)
(* it, and the loop ends at it; run_terminal returns in no other way than  *)
(* by such a line; any other line (the empty line, lines that contain a    *)
(* keyword) is passed to chat.prompt.  A quit keyword read leads to the    *)
(* return of run_terminal, and an answer returned leads back to input().   *)
(***************************************************************************)
C4_QuitEndsTheLoop ==
  /\ []C4_AtQuitOnly
  /\ (entry = "run_terminal" /\ pc = "check" /\ question \in QuitLines)
       ~> (pc = "done")
  /\ (entry = "run_terminal" /\ pc = "check" /\ question \in OtherLines)
       ~> (pc = "awaiting")
  /\ (pc = "print") ~> (pc = "input")

\* run_terminal has ended at "QuIT", after a question that contains "quit"
\* and after the empty line
C4_Witness ==
  /\ entry = "run_terminal"
  /\ pc = "done"
  /\ question = <<"Q", "u", "I", "T">>
  /\ \E m \in At("chat.prompt") : trace[m].arg = <<"q", "u", "i", "t", "s">>
  /\ \E m \in At("chat.prompt") : trace[m].arg = <<>>

(***************************************************************************)
(* C5: every call of chat.prompt is made with the line just read, as it    *)
(* was read, and with session_id "cli"; the calls made are as many as the  *)
(* lines read that are no quit keyword, less the one not yet passed on; at *)
(* most one call is unanswered, and one is exactly while run_terminal      *)
(* waits for it; after a call returns, the two lines written are the       *)
(* question and the answer as returned, and input() is called again only   *)
(* after both.                                                             *)
(***************************************************************************)
C5_OneRequestAtATime ==
  entry = "run_terminal" =>
    LET asks == At("chat.prompt")
        answered == Returned("chat.prompt")
        failed == Raised("chat.prompt")
        others == {m \in Returned("input") : trace[m + 1].arg \in OtherLines}
        pending == IF pc = "check" /\ question \in OtherLines THEN 1 ELSE 0
        open == Cardinality(asks) - Cardinality(answered) - Cardinality(failed)
    IN  /\ \A m \in asks :
             /\ m > 2
             /\ trace[m - 2].ev = "input"
             /\ trace[m - 1].ev = "return"
             /\ trace[m].arg = trace[m - 1].arg
             /\ trace[m].opt = <<"c", "l", "i">>
        /\ Cardinality(asks) + pending = Cardinality(others)
        /\ Cardinality(asks) >= Cardinality(answered) + Cardinality(failed)
        /\ open = IF pc = "awaiting" THEN 1 ELSE 0
        /\ \A m \in answered :
             \/ m + 1 = Len(trace) /\ pc = "print"
             \/ /\ m + 3 <= Len(trace)
                /\ trace[m + 2].ev = "stdout"
                /\ trace[m + 2].arg =
                     QuestionPrefix \o trace[m].arg \o <<"\n", "\n">>
                /\ trace[m + 3].ev = "stdout"
                /\ trace[m + 3].arg =
                     AnswerPrefix \o trace[m + 1].arg \o <<"\n", "\n">>
        /\ Cardinality(At("stdout")) =
             2 * (Cardinality(answered) - (IF pc = "print" THEN 1 ELSE 0))
        /\ \A r \in At("input") : \A m \in asks :
             m < r => m \in answered /\ m + 3 < r

\* two questions have been answered, one with an answer of several lines,
\* and a third line is being read
C5_Witness ==
  /\ entry = "run_terminal"
  /\ Cardinality(Returned("chat.prompt")) = 2
  /\ \E m \in Returned("chat.prompt") :
       trace[m].arg # <<>> /\ "\n" \in {trace[m + 1].arg[n] : n \in 1..Len(trace[m + 1].arg)}
  /\ Cardinality(At("input")) = 3

(***************************************************************************)
(* C6: an exception raised by chat.prompt is the last thing that happens   *)
(* in run_terminal: no line is written, chat.prompt is not called again,   *)
(* no input is read, and the exception leaves run_terminal.  An exception  *)
(* raised by get_by_path or get_by_url is the last thing that happens in   *)
(* fetch_documents: it leaves fetch_documents, add_documents has not been  *)
(* called, and the vector store is as it was.                              *)
(***************************************************************************)
C6_OtherFailuresPropagate ==
  /\ \A m \in Raised("chat.prompt") :
       /\ m + 1 = Len(trace)
       /\ pc = "raised"
       /\ Cardinality(At("stdout")) = 2 * Cardinality(Returned("chat.prompt"))
  /\ \A m \in FetchesRaised :
       /\ m + 1 = Len(trace)
       /\ pc = "raised"
       /\ At("add_documents") = {}
       /\ At("storage.add_documents") = {}
       /\ store = store0

\* the wiki fetch raised after the code fetch had returned documents
C6_Witness ==
  /\ \E m \in WikiFetches : m \in FetchesRaised
  /\ Len(code_docs) > 0
  /\ pc = "raised"

\* the place of a container in Settings, and what Settings gives it
Position(attr) == CHOOSE k \in 1..Len(SettingsOrder) : SettingsOrder[k] = attr
Receives(attr) == {kw[2] : kw \in Kwargs(attr)}
References(cls, name) ==
  {Injected(cls, name)[k] : k \in 1..Len(Injected(cls, name))}
    \cup Delegated(cls, name)
\* the providers of other containers that container attr refers to
Uses(attr) ==
  LET cls == ContainerClass(attr)
  IN  {Target(attr, r) :
         r \in {r \in UNION {References(cls, n) : n \in Providers(cls)} :
                  r[1] # "self"}}

\* the container graph, edge by edge
C7_Layers ==
  /\ Receives("core") = {} /\ Uses("core") = {}
  /\ Receives("ai") = {} /\ Uses("ai") = {}
  /\ Receives("content") = {} /\ Uses("content") = {}
  /\ Receives("storage") = {"ai"}
  /\ Uses("storage") = {<<"ai", "embeddings">>}
  /\ Receives("assistant") = {"ai", "storage"}
  /\ Uses("assistant") =
       { <<"ai", "llm">>, <<"storage", "vector_storage">>,
         <<"storage", "memory_factory">> }
  /\ Receives("app") = {"assistant"} /\ Uses("app") = {}
  /\ \A a \in SettingsAttrs :
       /\ \A b \in Receives(a) : b \in SettingsAttrs /\ Position(b) < Position(a)
       /\ {kw[1] : kw \in Kwargs(a)} = DependenciesContainers(ContainerClass(a))

\* the resolution of a declared provider, so far
C7_Resolution ==
  (entry = "wire" /\ IsDeclared(marker)) =>
    /\ \A k1, k2 \in 1..Len(stack) : stack[k1].p = stack[k2].p => k1 = k2
    /\ \A m \in At("provide") :
         LET deps == Dependencies(trace[m].arg)
         IN  \A n \in 1..Len(deps) :
               \E m2 \in At("provide") : m2 < m /\ trace[m2].arg = deps[n]
    /\ pc # "raised"
    /\ pc = "done" =>
         /\ stack = <<>>
         /\ trace[Len(trace)].ev = "provide"
         /\ trace[Len(trace)].arg = marker

(***************************************************************************)
(* C7: Settings gives Core, AI and ContentAdapters no container,           *)
(* StorageAdapters the AI container, of which it uses embeddings,          *)
(* AssistantAdapters the AI and storage containers, of which it uses llm,  *)
(* vector_storage and memory_factory, and Apps the assistant container;    *)
(* every container given is declared earlier in Settings.  While a         *)
(* provider is resolved no provider is entered twice, every provider is    *)
(* provided after the providers it calls, nothing raises, and the          *)
(* resolution ends with the provider asked for.                            *)
(***************************************************************************)
C7_LayeredAndTerminates ==
  /\ [](C7_Layers /\ C7_Resolution)
  /\ (pc = "resolve") ~> (pc = "done")

\* assistant.chat has been provided, after llm and vector_storage, and
\* vector_storage after embeddings
C7_Witness ==
  /\ entry = "wire"
  /\ marker = <<"assistant", "chat">>
  /\ pc = "done"
  /\ Len(trace) = 4
  /\ trace[1].arg = <<"ai", "llm">>
  /\ trace[2].arg = <<"ai", "embeddings">>
  /\ trace[3].arg = <<"storage", "vector_storage">>

(***************************************************************************)
(* C8: asking for a provider that main.py names in a Provide[...] marker   *)
(* never raises: the container has it.                                     *)
(***************************************************************************)
C8_MarkersAreDeclared ==
  (entry = "wire" /\ marker \in Markers) => pc # "raised"
====
